---- MODULE Spec2Model ----
(***************************************************************************)
(* A model of src/streamlit_dashboard.py, the Streamlit script of the      *)
(* Network Security Monitor dashboard.                                     *)
(*                                                                         *)
(* The script is executed top to bottom on every operator event and on     *)
(* every st.rerun().  What survives a run is st.session_state              *)
(* (current_page, last_refresh, refresh_interval) and the values of the    *)
(* sidebar widgets; everything else is a local of one run.  One run is     *)
(* modelled as a sequence of steps, one per section of the script, with    *)
(* pc holding the position of the run.                                     *)
(*                                                                         *)
(* Streamlit itself is outside the repository.  Its widgets are modelled   *)
(* as their documented interface: a button is True only in the run its     *)
(* click triggered, number_input returns the operator's entry limited to   *)
(* [min_value, max_value] and otherwise its value argument, select_slider  *)
(* returns the option last chosen, st.rerun() abandons the run and starts  *)
(* a new one with no button pressed, and an uncaught exception ends the    *)
(* run where it is raised.                                                 *)
(***************************************************************************)
EXTENDS Integers, Sequences, FiniteSets, TLC

(***************************************************************************)
(* Bounds of the model.                                                    *)
(***************************************************************************)
\* the largest packet_count the backend reports
MaxTotal == 21
\* the clock runs from 0 to MaxClock seconds
MaxClock == 5
\* the largest page size and item count of the page-count specification
MaxPageSize == 12
MaxItems == 100

(***************************************************************************)
(* Constants of the program.                                               *)
(***************************************************************************)
\* flows_per_page = 10
FlowsPerPage == 10
\* st.session_state.refresh_interval = 5, and value=5 of the slider
DefaultInterval == 5
\* value=10 of the "Flows per page" slider
DefaultPageSizeChoice == 10
\* the options of the two sliders the operator chooses among: of
\* options=[3, 5, 10, 15, 30] the default and the shortest interval, of
\* options=[5, 10, 20, 50, 100] the default and the next larger size
IntervalOptions == {3, 5}
PageSizeOptions == {10, 20}

(***************************************************************************)
(* JSON values as far as the script looks at them: an integer, a string,   *)
(* null, or no such key.  v is the integer and 0 for the others.           *)
(***************************************************************************)
JInt(n) == [t |-> "int", v |-> n]
JStr == [t |-> "str", v |-> 0]
JNull == [t |-> "null", v |-> 0]
JAbsent == [t |-> "absent", v |-> 0]

\* dict.get(key, default): the default only when the key is missing
Get(x, default) == IF x.t = "absent" THEN default ELSE x

(***************************************************************************)
(* What requests.get(...) brings back: it raises (timeout, transport       *)
(* error) or returns a response with a status code and a body.  json of a  *)
(* body is "invalid" when response.json() raises, else the kind of the     *)
(* parsed value.                                                           *)
(***************************************************************************)
Raises(kind) == [kind |-> kind, status |-> 0]
Http(status) == [kind |-> "http", status |-> status]

\* the try block reaches the line after response.json()
Parsed(r) == r.kind = "http" /\ r.status = 200 /\ r.body.json # "invalid"

(***************************************************************************)
(* GET /api/stats                                                          *)
(***************************************************************************)
StatsBody(json, p, b, d) ==
    [json |-> json, packet_count |-> p, byte_count |-> b, detection_rate |-> d]

StatsDefault ==
    [packet_count |-> JInt(0), byte_count |-> JInt(0), detection_rate |-> JInt(0)]

\* data.get on anything but a JSON object raises AttributeError, which the
\* except clause swallows; a field of any type is handed on as it is
StatsAnswered(r) == Parsed(r) /\ r.body.json = "object"

fetch_stats(r) ==
    IF StatsAnswered(r)
    THEN [packet_count |-> Get(r.body.packet_count, JInt(0)),
          byte_count |-> Get(r.body.byte_count, JInt(0)),
          detection_rate |-> Get(r.body.detection_rate, JInt(0))]
    ELSE StatsDefault

(***************************************************************************)
(* GET /api/packets?count=N.  An item of the body is "ok", "raises" (a     *)
(* timestamp, protocol, length or confidence that makes the conversion of  *)
(* lines 64-76 raise; so does an item that is no object) or "loose" (a     *)
(* src_ip, dest_ip or label of the wrong type, which is copied unchanged). *)
(***************************************************************************)
PacketsBody(json, items) == [json |-> json, items |-> items]

Row(item) == IF item = "ok" THEN "row" ELSE "loose_row"

fetch_packets(r, count) ==
    IF ~Parsed(r) THEN << >>
    ELSE IF r.body.json = "null" \/ Len(r.body.items) = 0 THEN << >>
    ELSE IF r.body.json # "array" THEN << >>
    ELSE IF \E i \in 1..Len(r.body.items) : r.body.items[i] = "raises" THEN << >>
    ELSE [i \in 1..Len(r.body.items) |-> Row(r.body.items[i])]

(***************************************************************************)
(* GET /api/analytics/attack_distribution.  The "distribution" field is a  *)
(* mapping with n labels, a string, or missing.                            *)
(***************************************************************************)
DMap(n) == [t |-> "map", n |-> n]
DStr == [t |-> "str", n |-> 0]
DAbsent == [t |-> "absent", n |-> 0]

DistBody(json, distribution) == [json |-> json, distribution |-> distribution]

DistDefault == DistBody("object", DMap(0))

\* response.json() is returned as it is
fetch_attack_distribution(r) == IF Parsed(r) THEN r.body ELSE DistDefault

(***************************************************************************)
(* GET /api/analytics/time_trends.  Each field is a list of n entries, a   *)
(* string, or missing.                                                     *)
(***************************************************************************)
LList(n) == [t |-> "list", n |-> n]
LStr == [t |-> "str", n |-> 0]
LAbsent == [t |-> "absent", n |-> 0]

TrendsBody(json, ts, pr, fr, bs) ==
    [json |-> json, timestamps |-> ts, packet_rate |-> pr,
     flow_rate |-> fr, bytes_per_sec |-> bs]

TrendsDefault == TrendsBody("object", LList(0), LList(0), LList(0), LList(0))

\* response.json() is returned as it is
fetch_time_trends(r) == IF Parsed(r) THEN r.body ELSE TrendsDefault

(***************************************************************************)
(* The backend's answers the specifications draw from.                     *)
(***************************************************************************)
With(r, body) == [kind |-> r.kind, status |-> r.status, body |-> body]

\* a request that raises, or is answered with an error status, has no body the
\* script reads: `none` stands for it
Answers(bodies, none) ==
    {With(r, none) : r \in {Raises("timeout"), Raises("transport_error"), Http(500)}}
    \cup {With(Http(200), b) : b \in bodies}

StatsFields == {JAbsent, JInt(0), JInt(MaxTotal), JNull, JStr}

StatsBodies ==
    {StatsBody("invalid", JAbsent, JAbsent, JAbsent),
     StatsBody("array", JAbsent, JAbsent, JAbsent)}
    \cup {StatsBody("object", p, b, d) : p \in StatsFields, b \in {JAbsent, JInt(0), JInt(7)},
                                         d \in {JAbsent, JInt(0), JInt(50), JStr}}

PacketsBodies ==
    {PacketsBody("invalid", << >>), PacketsBody("null", << >>),
     PacketsBody("object", << >>), PacketsBody("object", <<"ok">>),
     PacketsBody("array", << >>)}
    \cup {PacketsBody("array", <<a>>) : a \in {"ok", "raises", "loose"}}
    \cup {PacketsBody("array", <<a, b>>) : a, b \in {"ok", "raises", "loose"}}

DistBodies ==
    {DistBody("invalid", DAbsent), DistBody("array", DAbsent), DistBody("null", DAbsent)}
    \cup {DistBody("object", d) : d \in {DAbsent, DMap(0), DMap(1), DMap(2), DStr}}

TrendFields == {LAbsent, LList(0), LList(2), LStr}

TrendsBodies ==
    {TrendsBody("invalid", LAbsent, LAbsent, LAbsent, LAbsent),
     TrendsBody("array", LAbsent, LAbsent, LAbsent, LAbsent)}
    \cup {TrendsBody("object", ts, pr, LList(ts.n), LList(ts.n)) :
            ts \in TrendFields, pr \in TrendFields}

StatsResponses == Answers(StatsBodies, StatsBody("invalid", JAbsent, JAbsent, JAbsent))
PacketsResponses == Answers(PacketsBodies, PacketsBody("invalid", << >>))
DistResponses == Answers(DistBodies, DistBody("invalid", DAbsent))
TrendsResponses ==
    Answers(TrendsBodies, TrendsBody("invalid", LAbsent, LAbsent, LAbsent, LAbsent))

\* the answers one run of the script draws from
RunStatsResponses ==
    {With(Raises("timeout"), StatsBody("invalid", JAbsent, JAbsent, JAbsent)),
     With(Http(500), StatsBody("invalid", JAbsent, JAbsent, JAbsent)),
     With(Http(200), StatsBody("object", JNull, JInt(7), JInt(50)))}
    \cup {With(Http(200), StatsBody("object", JInt(n), JInt(7), JInt(50))) : n \in 0..MaxTotal}

RunPacketsResponses ==
    {With(Raises("timeout"), PacketsBody("invalid", << >>)),
     With(Http(200), PacketsBody("array", <<"ok">>))}

RunDistResponses ==
    {With(Raises("timeout"), DistBody("invalid", DAbsent)),
     With(Http(200), DistBody("object", DMap(2))),
     With(Http(200), DistBody("array", DAbsent))}

RunTrendsResponses ==
    {With(Raises("timeout"), TrendsBody("invalid", LAbsent, LAbsent, LAbsent, LAbsent)),
     With(Http(200), TrendsBody("object", LList(2), LList(2), LList(2), LList(2)))}

(***************************************************************************)
(* State.                                                                  *)
(***************************************************************************)
VARIABLES
    current_page,            \* st.session_state.current_page
    last_refresh,            \* st.session_state.last_refresh
    refresh_interval,        \* st.session_state.refresh_interval
    interval_slider,         \* value of the "Auto-refresh interval" slider
    flows_per_page_selector, \* value of the "Flows per page" slider
    clock,                   \* time.time(), in seconds
    pc,                      \* position of the script run
    event,                   \* the operator's action that triggered the run
    stats,                   \* local stats of the run
    failed,                  \* the fetches of the run that fell back to their default
    total_flows,             \* local total_flows
    flows_per_page,          \* the setting flows_per_page of line 145
    total_pages,             \* local total_pages
    clamped,                 \* whether line 155 ran in this run
    packets_data,            \* local packets_data
    view,                    \* what the run has rendered so far
    response,                \* the answer handed to a fetch function
    returned                 \* the function called and what it returned

session == <<current_page, last_refresh, refresh_interval>>
widgets == <<interval_slider, flows_per_page_selector>>
locals == <<stats, failed, total_flows, total_pages, clamped, packets_data, view>>
fetched == <<response, returned>>
vars == <<session, widgets, clock, pc, event, flows_per_page, locals, fetched>>

Event(kind, n) == [kind |-> kind, n |-> n]
NoEvent == Event("none", 0)

\* nothing rendered yet
NoView == [kpi |-> [shown |-> FALSE, packets |-> 0, bytes |-> 0, rate |-> 0], table |-> "none", dist |-> "none", trend |-> "none"]

NoCall == [fn |-> "none", value |-> 0]

\* the locals of a run that has not started
LocalsInit ==
    /\ stats = StatsDefault
    /\ failed = {}
    /\ total_flows = 0
    /\ total_pages = 0
    /\ clamped = FALSE
    /\ packets_data = << >>
    /\ view = NoView

\* the first run finds session_state empty: lines 114-118 and 141-142 fill it
Init ==
    /\ clock = 0
    /\ current_page = 1
    /\ last_refresh = 0
    /\ refresh_interval = DefaultInterval
    /\ interval_slider = DefaultInterval
    /\ flows_per_page_selector = DefaultPageSizeChoice
    /\ pc = "idle"
    /\ event = NoEvent
    /\ flows_per_page = FlowsPerPage
    /\ LocalsInit
    /\ response = With(Raises("none"), 0)
    /\ returned = NoCall

(***************************************************************************)
(* The pagination arithmetic of lines 147-155 and 246-275.                 *)
(***************************************************************************)
\* a variant of TotalPages that rounds down (the "+ flows_per_page - 1" left out)
TotalPages_RoundsDown(total, per_page) ==
    IF total > 0 THEN total \div per_page ELSE 0

\* lines 148-151
TotalPages(total, per_page) ==
    IF total > 0 THEN (total + per_page - 1) \div per_page ELSE 0

\* a variant of ClampPage with lines 154-155 left out
ClampPage_Never(page, pages) == page

\* a variant of ClampPage that steps one page back instead of going to the last
ClampPage_StepsBack(page, pages) == IF pages > 0 /\ page > pages THEN page - 1 ELSE page

\* lines 154-155
ClampPage(page, pages) == IF pages > 0 /\ page > pages THEN pages ELSE page

\* lines 248-249
PrevPage(page) == IF page > 1 THEN page - 1 ELSE page

\* a variant of NextPage without the test of line 273
NextPage_Unguarded(page, pages) == page + 1

\* lines 273-274
NextPage(page, pages) == IF page < pages THEN page + 1 ELSE page

Max(a, b) == IF a >= b THEN a ELSE b
Min(a, b) == IF a <= b THEN a ELSE b

\* a variant of NumberInput with max_value left out of the call
NumberInput_NoMaximum(entered, min_value, max_value) ==
    IF entered >= min_value THEN entered ELSE min_value

\* st.number_input(min_value=1, max_value=max(1, total_pages), value=current_page):
\* what the operator entered, held within the limits of the widget
NumberInput(entered, min_value, max_value) == Max(min_value, Min(entered, max_value))

\* line 124
RefreshDue(now, last, interval) == now - last >= interval

(***************************************************************************)
(* The operator.                                                           *)
(***************************************************************************)
MaxPages == TotalPages(MaxTotal, FlowsPerPage)

\* what the operator may type into "Jump to page"
JumpInputs == (0 - 1)..(MaxPages + 1)

UserEvents ==
    {NoEvent, Event("refresh", 0), Event("prev", 0), Event("next", 0)}
    \cup {Event("jump", n) : n \in JumpInputs}
    \cup {Event("interval", i) : i \in IntervalOptions \ {interval_slider}}
    \cup {Event("pagesize", n) : n \in PageSizeOptions \ {flows_per_page_selector}}

(***************************************************************************)
(* One run of the script.                                                  *)
(***************************************************************************)
ResetLocals ==
    /\ stats' = StatsDefault
    /\ failed' = {}
    /\ total_flows' = 0
    /\ total_pages' = 0
    /\ clamped' = FALSE
    /\ packets_data' = << >>
    /\ view' = NoView

\* lines 114-126: the auto-refresh check every run starts with
Top ==
    IF RefreshDue(clock, last_refresh, refresh_interval)
    THEN last_refresh' = clock /\ pc' = "rerun"
    ELSE pc' = "stats" /\ UNCHANGED last_refresh

\* time passes while the page is displayed
Tick ==
    /\ pc = "idle"
    /\ clock < MaxClock
    /\ clock' = clock + 1
    /\ UNCHANGED <<session, widgets, pc, event, flows_per_page, locals, fetched>>

\* the operator acts on the page: the browser stores the widget's new value and
\* the script runs from the top
UserEvent(ev) ==
    /\ pc = "idle"
    /\ event' = ev
    /\ interval_slider' = IF ev.kind = "interval" THEN ev.n ELSE interval_slider
    /\ flows_per_page_selector' =
           IF ev.kind = "pagesize" THEN ev.n ELSE flows_per_page_selector
    /\ Top
    /\ UNCHANGED <<current_page, refresh_interval, clock, flows_per_page, locals, fetched>>

\* st.rerun(): the script runs again from the top, no button pressed
Rerun ==
    /\ pc = "rerun"
    /\ event' = NoEvent
    /\ ResetLocals
    /\ Top
    /\ UNCHANGED <<current_page, refresh_interval, widgets, clock, flows_per_page, fetched>>

\* lines 133-136
FetchStats(r) ==
    /\ pc = "stats"
    /\ stats' = fetch_stats(r)
    /\ failed' = IF StatsAnswered(r) THEN failed ELSE failed \cup {"stats"}
    /\ total_flows' = stats'.packet_count.v
    /\ pc' = "paginate"
    /\ UNCHANGED <<session, widgets, clock, event, flows_per_page, total_pages,
                   clamped, packets_data, view, fetched>>

\* lines 141-155: total_pages and the clamp of current_page; total_flows > 0
\* raises TypeError when packet_count is no number
Paginate ==
    /\ pc = "paginate"
    /\ IF stats.packet_count.t # "int"
       THEN /\ pc' = "crashed"
            /\ UNCHANGED <<current_page, total_pages, clamped>>
       ELSE /\ total_pages' = TotalPages(total_flows, flows_per_page)
            /\ current_page' = ClampPage(current_page, total_pages')
            /\ clamped' = (current_page' # current_page)
            /\ pc' = "packets"
    /\ UNCHANGED <<last_refresh, refresh_interval, widgets, clock, event,
                   flows_per_page, stats, failed, total_flows, packets_data, view,
                   fetched>>

\* lines 158-159
FetchPackets(r) ==
    /\ pc = "packets"
    /\ packets_data' = fetch_packets(r, flows_per_page)
    /\ failed' = IF Parsed(r) THEN failed ELSE failed \cup {"packets"}
    /\ pc' = "header"
    /\ UNCHANGED <<session, widgets, clock, event, flows_per_page, stats, total_flows,
                   total_pages, clamped, view, fetched>>

\* lines 166-232: the "Refresh Now" button, then the KPI row, whose formats
\* raise on a byte_count or detection_rate that is no number
Header ==
    /\ pc = "header"
    /\ IF event.kind = "refresh"
       THEN last_refresh' = clock /\ pc' = "rerun" /\ UNCHANGED view
       ELSE IF stats.byte_count.t # "int" \/ stats.detection_rate.t # "int"
       THEN pc' = "crashed" /\ UNCHANGED <<last_refresh, view>>
       ELSE /\ view' = [view EXCEPT !.kpi = [shown |-> TRUE,
                                             packets |-> stats.packet_count.v,
                                             bytes |-> stats.byte_count.v,
                                             rate |-> stats.detection_rate.v]]
            /\ pc' = "nav"
            /\ UNCHANGED last_refresh
    /\ UNCHANGED <<current_page, refresh_interval, widgets, clock, event,
                   flows_per_page, stats, failed, total_flows, total_pages, clamped,
                   packets_data, fetched>>

\* line 257-263: the value of the "Jump to page" input in this run
PageInput ==
    IF event.kind = "jump"
    THEN NumberInput(event.n, 1, Max(1, total_pages))
    ELSE current_page

\* lines 241-300: the page controls and the table, or the warning
Navigation ==
    /\ pc = "nav"
    /\ IF total_flows > 0
       THEN IF event.kind = "prev" /\ PrevPage(current_page) # current_page
            THEN /\ current_page' = PrevPage(current_page)
                 /\ pc' = "rerun"
                 /\ UNCHANGED view
            ELSE IF PageInput # current_page
            THEN /\ current_page' = PageInput
                 /\ pc' = "rerun"
                 /\ UNCHANGED view
            ELSE IF event.kind = "next" /\ NextPage(current_page, total_pages) # current_page
            THEN /\ current_page' = NextPage(current_page, total_pages)
                 /\ pc' = "rerun"
                 /\ UNCHANGED view
            ELSE /\ view' = [view EXCEPT !.table =
                                IF Len(packets_data) > 0 THEN "rows" ELSE "no_rows"]
                 /\ pc' = "attack"
                 /\ UNCHANGED current_page
       ELSE /\ view' = [view EXCEPT !.table = "warning"]
            /\ pc' = "attack"
            /\ UNCHANGED current_page
    /\ UNCHANGED <<last_refresh, refresh_interval, widgets, clock, event,
                   flows_per_page, stats, failed, total_flows, total_pages, clamped,
                   packets_data, fetched>>

\* lines 310-362: attack_dist.get raises on anything but a JSON object, and
\* distribution.items() on a distribution that is no mapping
AttackSummary(r) ==
    /\ pc = "attack"
    /\ LET attack_dist == fetch_attack_distribution(r)
           distribution == Get(attack_dist.distribution, DMap(0))
       IN IF attack_dist.json # "object" \/ distribution.t # "map"
          THEN pc' = "crashed" /\ UNCHANGED view
          ELSE /\ view' = [view EXCEPT !.dist =
                              IF distribution.n > 0 THEN "cards" ELSE "no_data"]
               /\ pc' = "trends"
    /\ failed' = IF Parsed(r) THEN failed ELSE failed \cup {"distribution"}
    /\ UNCHANGED <<session, widgets, clock, event, flows_per_page, stats, total_flows,
                   total_pages, clamped, packets_data, fetched>>

\* lines 366-396: trends.get raises on anything but a JSON object, and the two
\* comprehensions on a field that is no list
TimeTrends(r) ==
    /\ pc = "trends"
    /\ LET trends == fetch_time_trends(r)
           timestamps == Get(trends.timestamps, LList(0))
           packet_rates == Get(trends.packet_rate, LList(0))
       IN IF trends.json # "object" \/ timestamps.t # "list"
             \/ (timestamps.n > 0 /\ packet_rates.t # "list")
          THEN pc' = "crashed" /\ UNCHANGED view
          ELSE /\ view' = [view EXCEPT !.trend =
                              IF timestamps.n = 0 THEN "no_trend"
                              ELSE IF packet_rates.n = 0 THEN "no_rate"
                              ELSE "chart"]
               /\ pc' = "sidebar"
    /\ failed' = IF Parsed(r) THEN failed ELSE failed \cup {"trends"}
    /\ UNCHANGED <<session, widgets, clock, event, flows_per_page, stats, total_flows,
                   total_pages, clamped, packets_data, fetched>>

\* lines 433-519: the sidebar reads the two sliders; only the refresh interval
\* is stored
Sidebar ==
    /\ pc = "sidebar"
    /\ refresh_interval' = interval_slider
    /\ pc' = "done"
    /\ UNCHANGED <<current_page, last_refresh, widgets, clock, event, flows_per_page,
                   locals, fetched>>

\* the run is over (it reached the end, or an exception ended it): the page
\* stays displayed and the script's locals are gone
EndRun ==
    /\ pc \in {"done", "crashed"}
    /\ pc' = "idle"
    /\ event' = NoEvent
    /\ ResetLocals
    /\ UNCHANGED <<session, widgets, clock, flows_per_page, fetched>>

Next ==
    \/ Tick
    \/ \E ev \in UserEvents : UserEvent(ev)
    \/ Rerun
    \/ \E r \in RunStatsResponses : FetchStats(r)
    \/ Paginate
    \/ \E r \in RunPacketsResponses : FetchPackets(r)
    \/ Header
    \/ Navigation
    \/ \E r \in RunDistResponses : AttackSummary(r)
    \/ \E r \in RunTrendsResponses : TimeTrends(r)
    \/ Sidebar
    \/ EndRun

Spec == Init /\ [][Next]_vars

(***************************************************************************)
(* The page count alone, for every total and every setting of              *)
(* flows_per_page: the run is at line 141 with total_flows fetched.        *)
(***************************************************************************)
InitPages ==
    /\ clock = 0
    /\ current_page = 1
    /\ last_refresh = 0
    /\ refresh_interval = DefaultInterval
    /\ interval_slider = DefaultInterval
    /\ flows_per_page_selector = DefaultPageSizeChoice
    /\ pc = "paginate"
    /\ event = NoEvent
    /\ flows_per_page \in 1..MaxPageSize
    /\ total_flows \in 0..MaxItems
    /\ stats = [StatsDefault EXCEPT !.packet_count = JInt(total_flows)]
    /\ failed = {}
    /\ total_pages = 0
    /\ clamped = FALSE
    /\ packets_data = << >>
    /\ view = NoView
    /\ response = With(Raises("none"), 0)
    /\ returned = NoCall

NextPages == Paginate

SpecPages == InitPages /\ [][NextPages]_vars

(***************************************************************************)
(* The four fetch functions alone, on every answer of the backend.         *)
(***************************************************************************)
CallFetchStats(r) ==
    /\ response' = r
    /\ returned' = [fn |-> "fetch_stats", value |-> fetch_stats(r)]
    /\ UNCHANGED <<session, widgets, clock, pc, event, flows_per_page, locals>>

CallFetchPackets(r) ==
    /\ response' = r
    /\ returned' = [fn |-> "fetch_packets", value |-> fetch_packets(r, flows_per_page)]
    /\ UNCHANGED <<session, widgets, clock, pc, event, flows_per_page, locals>>

CallFetchAttackDistribution(r) ==
    /\ response' = r
    /\ returned' = [fn |-> "fetch_attack_distribution",
                    value |-> fetch_attack_distribution(r)]
    /\ UNCHANGED <<session, widgets, clock, pc, event, flows_per_page, locals>>

CallFetchTimeTrends(r) ==
    /\ response' = r
    /\ returned' = [fn |-> "fetch_time_trends", value |-> fetch_time_trends(r)]
    /\ UNCHANGED <<session, widgets, clock, pc, event, flows_per_page, locals>>

NextFetch ==
    \/ \E r \in StatsResponses : CallFetchStats(r)
    \/ \E r \in PacketsResponses : CallFetchPackets(r)
    \/ \E r \in DistResponses : CallFetchAttackDistribution(r)
    \/ \E r \in TrendsResponses : CallFetchTimeTrends(r)

SpecFetch == Init /\ [][NextFetch]_vars

(***************************************************************************)
(* Properties.                                                             *)
(***************************************************************************)
\* the positions of a run at which lines 141-155 have been executed
Reconciled == {"packets", "header", "nav", "attack", "trends", "sidebar", "done"}

\* the positions of a run at which the page controls of lines 241-275 have
\* been executed; a run the auto-refresh check restarted has rendered nothing
Navigated ==
    /\ pc \in {"rerun", "attack", "trends", "sidebar", "done", "crashed"}
    /\ view.kpi.shown
    /\ total_flows > 0

InBounds == 1 <= current_page /\ current_page <= Max(total_pages, 1)

\* ceil(a / b), as the least n with n * b >= a
CeilDiv(a, b) == CHOOSE n \in 0..a : n * b >= a /\ (n = 0 \/ (n - 1) * b < a)

\* C1: after a run has reconciled the page against the fetched total,
\* 1 <= current_page <= max(total_pages, 1); with no pages the page is 1.
C1_PageInBoundsAfterReconcile == pc \in Reconciled => InBounds

\* C2: when only the stats fetch fails and the flows, the distribution and the
\* trends arrive populated, the finished page shows zeroed stats and still
\* the flow table, the distribution and the trend chart.
C2_IndependentDegradation ==
    (pc = "done" /\ failed = {"stats"} /\ Len(packets_data) > 0)
        => /\ view.kpi = [shown |-> TRUE, packets |-> 0, bytes |-> 0, rate |-> 0]
           /\ view.table = "rows"
           /\ view.dist = "cards"
           /\ view.trend = "chart"

\* a 200 answer whose payload is not of the endpoint's shape: the wrong kind of
\* JSON value, or a field that is present with the wrong type
Malformed(fn, body) ==
    CASE fn = "fetch_stats" ->
           \/ body.json # "object"
           \/ \E f \in {"packet_count", "byte_count", "detection_rate"} :
                  body[f].t \notin {"int", "absent"}
      [] fn = "fetch_packets" ->
           \/ body.json # "array"
           \/ \E i \in 1..Len(body.items) : body.items[i] # "ok"
      [] fn = "fetch_attack_distribution" ->
           body.json # "object" \/ body.distribution.t = "str"
      [] fn = "fetch_time_trends" ->
           \/ body.json # "object"
           \/ \E f \in {"timestamps", "packet_rate", "flow_rate", "bytes_per_sec"} :
                  body[f].t = "str"

Failing(fn, r) ==
    r.kind # "http" \/ r.status \notin 200..299 \/ Malformed(fn, r.body)

DefaultOf(fn) ==
    CASE fn = "fetch_stats" -> StatsDefault
      [] fn = "fetch_packets" -> << >>
      [] fn = "fetch_attack_distribution" -> DistDefault
      [] fn = "fetch_time_trends" -> TrendsDefault

\* a value of the snapshot type of the function
ValidSnapshot(fn, value) ==
    CASE fn = "fetch_stats" ->
           \A f \in {"packet_count", "byte_count", "detection_rate"} :
               value[f].t = "int" /\ value[f].v >= 0
      [] fn = "fetch_packets" -> \A i \in 1..Len(value) : value[i] = "row"
      [] fn = "fetch_attack_distribution" ->
           value.json = "object" /\ value.distribution.t # "str"
      [] fn = "fetch_time_trends" ->
           /\ value.json = "object"
           /\ \A f \in {"timestamps", "packet_rate", "flow_rate", "bytes_per_sec"} :
                  value[f].t # "str"

\* C3: each fetch function returns a valid snapshot on every answer, and the
\* documented default on every failing one (timeout, transport error, non-2xx
\* status, malformed payload).
C3_FetchFailsSoft ==
    returned.fn # "none"
        => /\ ValidSnapshot(returned.fn, returned.value)
           /\ Failing(returned.fn, response) => returned.value = DefaultOf(returned.fn)

\* C4: the run the operator's choice of a new "Flows per page" triggered ends
\* with current_page = 1 and total_pages = ceil(total_flows / new size).
C4_PageSizeChangeResetsPage ==
    (pc = "done" /\ event.kind = "pagesize")
        => /\ current_page = 1
           /\ total_pages = CeilDiv(total_flows, flows_per_page_selector)

\* C5: total_pages = ceil(total_flows / flows_per_page) when total_flows > 0,
\* and 0 when total_flows = 0.
C5_TotalPagesIsCeiling ==
    pc = "packets"
        => total_pages = IF total_flows = 0 THEN 0
                         ELSE CeilDiv(total_flows, flows_per_page)

C5_Witness ==
    pc = "packets" /\ total_flows = 97 /\ flows_per_page = 10 /\ total_pages = 10

\* C6: when the fetched total gives total_pages > 0, lines 141-155 set
\* current_page to min(previous current_page, total_pages).
C6_ReconcileClampsToLastPage ==
    [][(pc = "paginate" /\ pc' = "packets" /\ total_pages' > 0)
           => current_page' = Min(current_page, total_pages')]_vars

C6_Witness ==
    pc = "packets" /\ clamped /\ total_pages > 0 /\ current_page = total_pages

\* C7: once the page controls have handled a jump to any integer n,
\* current_page is in [1, max(total_pages, 1)].
C7_JumpStaysInBounds == (event.kind = "jump" /\ Navigated) => InBounds

C7_Witness ==
    /\ event.kind = "jump" /\ event.n > total_pages
    /\ Navigated /\ pc = "rerun"
    /\ current_page = total_pages

\* C8: Next at the last page and Previous at page 1 change nothing of the
\* pagination state and raise nothing; elsewhere Next adds exactly 1 and
\* Previous subtracts exactly 1.
C8_NextPrevAtBoundaries ==
    [][(pc = "nav" /\ pc' # "nav" /\ total_flows > 0 /\ event.kind \in {"next", "prev"})
           => /\ pc' \in {"attack", "rerun"}
              /\ <<total_flows, total_pages, flows_per_page>>'
                     = <<total_flows, total_pages, flows_per_page>>
              /\ event.kind = "next" =>
                     current_page' = IF current_page = total_pages
                                     THEN current_page ELSE current_page + 1
              /\ event.kind = "prev" =>
                     current_page' = IF current_page = 1
                                     THEN current_page ELSE current_page - 1]_vars

C8_Witness ==
    /\ event.kind = "next" /\ Navigated /\ pc = "attack"
    /\ total_pages > 1 /\ current_page = total_pages

\* C9: reconciling again with the same total, with no navigation in between,
\* changes nothing: the state lines 141-155 leave is a fixed point of them.
C9_ReconcileIdempotent ==
    pc = "packets"
        => /\ TotalPages(total_flows, flows_per_page) = total_pages
           /\ ClampPage(current_page, total_pages) = current_page

C9_Witness == pc = "packets" /\ clamped /\ total_flows > 0 /\ current_page > 1

\* C10: a run triggered by "Refresh Now" ends (by st.rerun() or otherwise) with
\* last_refresh at the time of the trigger, whatever the fetches answered.
C10_ManualRefreshResetsTimer ==
    (event.kind = "refresh" /\ pc \in {"rerun", "done", "crashed"})
        => last_refresh = clock

====
